---- MODULE Spec2Model ----
(***************************************************************************)
(* Model of obsidian_graph: ObsidianGraphSDK.export_to_networkx walks a    *)
(* vault, ObsidianParser.parse_markdown_file turns each '.md' file into a  *)
(* parsed note, and GraphBuilder.build_graph assembles a directed graph in *)
(* two phases (nodes, then edges).                                         *)
(*                                                                         *)
(* Python strings are sequences of one-character strings.  YAML values are *)
(* tagged records [t, s, l]: t is the Python type ("str", "null", "int",   *)
(* "list", "map"), s the characters of a str, l the items of a list (each  *)
(* an item [t, s]).  A metadata mapping is a function from keys to values; *)
(* the key IntKey stands for a YAML key that is not a string.              *)
(***************************************************************************)
EXTENDS Integers, Sequences, FiniteSets, TLC

\* Largest number of files in the vault.
MaxFiles == 3

Range(f) == {f[x] : x \in DOMAIN f}

----------------------------------------------------------------------------
\* Python values

Str(s) == [t |-> "str", s |-> s, l |-> <<>>]
Null == [t |-> "null", s |-> <<>>, l |-> <<>>]
Int1 == [t |-> "int", s |-> <<"1">>, l |-> <<>>]
EmptyMap == [t |-> "map", s |-> <<>>, l |-> <<>>]
Item(v) == [t |-> v.t, s |-> v.s]
List(items) == [t |-> "list", s |-> <<>>, l |-> [n \in DOMAIN items |-> Item(items[n])]]
EmptyList == List(<<>>)

\* A YAML key that is not a string (the mapping key 1).
IntKey == "#1"

EmptyDict == [k \in {} |-> Null]

\* dict.get(key, default)
Get(d, key, default) == IF key \in DOMAIN d THEN d[key] ELSE default

\* dict.update(other): the keys of other overwrite, the others stay.
DictUpdate(d, other) ==
    [k \in DOMAIN d \cup DOMAIN other |-> IF k \in DOMAIN other THEN other[k] ELSE d[k]]

\* A dict from a sequence of <<key, value>> pairs, as a YAML mapping is loaded.
Dict(pairs) ==
    [k \in {pairs[n][1] : n \in DOMAIN pairs} |->
        pairs[CHOOSE n \in DOMAIN pairs :
                 /\ pairs[n][1] = k
                 /\ \A m \in DOMAIN pairs : pairs[m][1] = k => m <= n][2]]

----------------------------------------------------------------------------
\* str methods

Lower == <<"a","b","c","d","e","f","g","h","i","j","k","l","m",
           "n","o","p","q","r","s","t","u","v","w","x","y","z">>
Upper == <<"A","B","C","D","E","F","G","H","I","J","K","L","M",
           "N","O","P","Q","R","S","T","U","V","W","X","Y","Z">>

UpperChar(c) ==
    IF \E n \in DOMAIN Lower : Lower[n] = c
    THEN Upper[CHOOSE n \in DOMAIN Lower : Lower[n] = c]
    ELSE c

\* str.upper()
StrUpper(s) == [n \in DOMAIN s |-> UpperChar(s[n])]

\* str.replace(' ', '_')
ReplaceSpace(s) == [n \in DOMAIN s |-> IF s[n] = " " THEN "_" ELSE s[n]]

Whitespace == {" ", "\n", "\t"}

\* str.strip()
RECURSIVE LStrip(_)
LStrip(s) == IF s # <<>> /\ Head(s) \in Whitespace THEN LStrip(Tail(s)) ELSE s

RECURSIVE RStrip(_)
RStrip(s) ==
    IF s # <<>> /\ s[Len(s)] \in Whitespace THEN RStrip(SubSeq(s, 1, Len(s) - 1)) ELSE s

Strip(s) == RStrip(LStrip(s))

----------------------------------------------------------------------------
\* The link pattern  \[\[([^|\]]+)(?:\|([^\]]+))?\]\]

\* Length of the longest run of characters outside stop, from position p.
RECURSIVE RunLen(_, _, _)
RunLen(s, p, stop) ==
    IF p <= Len(s) /\ s[p] \notin stop THEN 1 + RunLen(s, p + 1, stop) ELSE 0

At(s, p, c) == p <= Len(s) /\ p >= 1 /\ s[p] = c

\* The match of the link pattern that starts at position p of s, if any:
\* group 1 (the target), group 2 (the display, empty when absent) and the
\* position after the match.
LinkMatch(s, p) ==
    LET n == RunLen(s, p + 2, {"|", "]"})
        q == p + 2 + n
        m == RunLen(s, q + 1, {"]"})
        r == q + 1 + m
        no == [ok |-> FALSE, target |-> <<>>, display |-> <<>>, end |-> p]
    IN  IF ~(At(s, p, "[") /\ At(s, p + 1, "[") /\ n >= 1) THEN no
        ELSE IF At(s, q, "|") /\ m >= 1 /\ At(s, r, "]") /\ At(s, r + 1, "]")
             THEN [ok |-> TRUE, target |-> SubSeq(s, p + 2, q - 1),
                   display |-> SubSeq(s, q + 1, r - 1), end |-> r + 2]
        ELSE IF At(s, q, "]") /\ At(s, q + 1, "]")
             THEN [ok |-> TRUE, target |-> SubSeq(s, p + 2, q - 1),
                   display |-> <<>>, end |-> q + 2]
        ELSE no

\* re.findall of the link pattern in text, from position p: the (target,
\* display) groups of the successive non-overlapping matches.
RECURSIVE FindLinks(_, _)
FindLinks(text, p) ==
    IF p > Len(text) THEN <<>>
    ELSE LET m == LinkMatch(text, p)
         IN  IF m.ok THEN <<m>> \o FindLinks(text, m.end)
             ELSE FindLinks(text, p + 1)

----------------------------------------------------------------------------
\* os.path

\* Position of the last occurrence of c in s, 0 if none.
LastIndex(s, c) ==
    IF \E n \in DOMAIN s : s[n] = c
    THEN CHOOSE n \in DOMAIN s : s[n] = c /\ \A m \in DOMAIN s : s[m] = c => m <= n
    ELSE 0

\* os.path.join(root, file)
PathJoin(root, file) == root \o <<"/">> \o file

\* os.path.basename(path)
Basename(path) == SubSeq(path, LastIndex(path, "/") + 1, Len(path))

\* os.path.splitext(name)[0]: the extension starts at the last dot, unless
\* only dots come before it.
SplitextRoot(name) ==
    LET d == LastIndex(name, ".")
    IN  IF d > 0 /\ \E n \in 1..(d - 1) : name[n] # "."
        THEN SubSeq(name, 1, d - 1)
        ELSE name

\* str.endswith(suffix)
EndsWith(s, suffix) ==
    /\ Len(s) >= Len(suffix)
    /\ SubSeq(s, Len(s) - Len(suffix) + 1, Len(s)) = suffix

\* str.startswith(prefix)
StartsWith(s, prefix) ==
    /\ Len(s) >= Len(prefix)
    /\ SubSeq(s, 1, Len(prefix)) = prefix

MdExt == <<".", "m", "d">>
Delim == <<"-", "-", "-">>

\* str.find(sub, start): first position >= start where sub occurs, 0 if none.
Find(s, sub, start) ==
    LET hits == {p \in start..(Len(s) - Len(sub) + 1) : SubSeq(s, p, p + Len(sub) - 1) = sub}
    IN  IF hits = {} THEN 0 ELSE CHOOSE p \in hits : \A q \in hits : p <= q

\* content.split('---', 2): at most two splits, so at most three parts.
Split2(s) ==
    LET p1 == Find(s, Delim, 1)
        p2 == IF p1 = 0 THEN 0 ELSE Find(s, Delim, p1 + 3)
    IN  IF p1 = 0 THEN <<s>>
        ELSE IF p2 = 0 THEN <<SubSeq(s, 1, p1 - 1), SubSeq(s, p1 + 3, Len(s))>>
        ELSE <<SubSeq(s, 1, p1 - 1), SubSeq(s, p1 + 3, p2 - 1), SubSeq(s, p2 + 3, Len(s))>>

----------------------------------------------------------------------------
\* The vault's files

sA == <<"A">>
sB == <<"B">>
sC == <<"C">>
tNode == <<"n", "o", "d", "e">>
tEvent == <<"e", "v", "e", "n", "t">>
tEdge == <<"e", "d", "g", "e">>
tEdgeCap == <<"E", "d", "g", "e">>
LinkA == <<"[", "[", "A", "]", "]">>
LinkBx == <<"[", "[", " ", "B", "|", "x", "]", "]">>
LinkC == <<"[", "[", "C", "]", "]">>

\* The YAML documents of the vault.  The text of a document is abbreviated
\* to one token, "{name}"; yaml.safe_load of that text gives the mapping.
YamlDocs == Dict(<<
    <<"{nodeA}", Dict(<< <<"type", Str(tNode)>>, <<"aliases", List(<<Str(<<"a">>)>>)>>,
                         <<"describe", Str(<<"d">>)>>, <<"version", Str(<<"1">>)>>,
                         <<"over", Str(<<"o">>)>>, <<"tags", List(<<Str(<<"t">>)>>)>> >>)>>,
    <<"{eventB}", Dict(<< <<"type", Str(tEvent)>> >>)>>,
    <<"{eventA}", Dict(<< <<"type", Str(tEvent)>>, <<"describe", Null>> >>)>>,
    <<"{Edge}", Dict(<< <<"type", Str(tEdgeCap)>>, <<"ends", List(<<Str(sA), Str(sB)>>)>> >>)>>,
    <<"{edgeAB}", Dict(<< <<"type", Str(tEdge)>>,
                          <<"ends", List(<<Str(LinkA), Str(LinkBx)>>)>>,
                          <<"describe", Str(<<"a", " ", "b", " ", "-", "C">>)>> >>)>>,
    <<"{edgeAA}", Dict(<< <<"type", Str(tEdge)>>,
                          <<"ends", List(<<Str(sA), Str(LinkA)>>)>>,
                          <<"version", Str(<<"2">>)>> >>)>>,
    <<"{edgeAA2}", Dict(<< <<"type", Str(tEdge)>>,
                           <<"ends", List(<<Str(LinkA), Str(sA)>>)>>,
                           <<"describe", Str(<<"b", " ", "c">>)>>,
                           <<"tags", List(<<Str(<<"t">>)>>)>>,
                           <<"k", Str(<<"v">>)>>,
                           <<"relation_type", Str(<<"m", "i", "n", "e">>)>>,
                           <<"_internal_links_info", Str(<<"z">>)>> >>)>>,
    <<"{edgeAC}", Dict(<< <<"type", Str(tEdge)>>,
                          <<"ends", List(<<Str(sA), Str(LinkC)>>)>>,
                          <<"describe", Str(<<"b">>)>> >>)>>,
    <<"{edgeCA}", Dict(<< <<"type", Str(tEdge)>>,
                          <<"ends", List(<<Str(sC), Str(LinkA)>>)>> >>)>>,
    <<"{endsNone}", Dict(<< <<"type", Str(tEdge)>>, <<"describe", Str(<<"b">>)>> >>)>>,
    <<"{endsStr}", Dict(<< <<"type", Str(tEdge)>>, <<"ends", Str(LinkA)>> >>)>>,
    <<"{endsMap}", Dict(<< <<"type", Str(tEdge)>>, <<"ends", EmptyMap>> >>)>>,
    <<"{ends0}", Dict(<< <<"type", Str(tEdge)>>, <<"ends", EmptyList>> >>)>>,
    <<"{ends1}", Dict(<< <<"type", Str(tEdge)>>, <<"ends", List(<<Str(sA)>>)>> >>)>>,
    <<"{ends3}", Dict(<< <<"type", Str(tEdge)>>,
                         <<"ends", List(<<Str(sA), Str(sB), Str(sA)>>)>> >>)>>,
    <<"{endsInt}", Dict(<< <<"type", Str(tEdge)>>, <<"ends", List(<<Str(sA), Int1>>)>> >>)>>,
    <<"{descNull}", Dict(<< <<"type", Str(tEdge)>>, <<"ends", List(<<Str(sA), Str(sA)>>)>>,
                            <<"describe", Null>> >>)>>,
    <<"{intKey}", Dict(<< <<"type", Str(tEdge)>>, <<"ends", List(<<Str(sA), Str(sA)>>)>>,
                          <<IntKey, Str(<<"v">>)>> >>)>>
>>)

\* The text of a file: a front matter block holding one YAML document, then
\* the body.
Front(doc, body) == Delim \o <<"\n", doc, "\n">> \o Delim \o <<"\n">> \o body \o <<"\n">>

File(root, file, read, text) == [root |-> root, file |-> file, read |-> read, text |-> text]

Md(name) == name \o MdExt

\* The files a vault is made of.  read is what opening and reading the file
\* as UTF-8 does: "ok", "oserror" (missing, permission, I/O) or "decode" (bytes
\* that are not valid UTF-8).
FileMenu == {
    File(<<"v">>, Md(sA), "ok", Front("{nodeA}", <<"x", " ">> \o LinkBx)),
    File(<<"v">>, Md(sB), "ok", Front("{eventB}", <<>>)),
    File(<<"v", "/", "s">>, Md(sA), "ok", Front("{eventA}", <<"y">>)),
    File(<<"v">>, Md(sC), "ok", <<"x">> \o LinkA),
    File(<<"v">>, Md(<<"E">>), "ok", Front("{Edge}", <<>>)),
    File(<<"v">>, Md(<<"R", "1">>), "ok", Front("{edgeAB}", <<"r">>)),
    File(<<"v">>, Md(<<"R", "2">>), "ok", Front("{edgeAA}", <<>>)),
    File(<<"v">>, Md(<<"R", "5">>), "ok", Front("{edgeAA2}", <<"w", " ">> \o LinkC)),
    File(<<"v">>, Md(<<"R", "3">>), "ok", Front("{edgeAC}", <<>>)),
    File(<<"v">>, Md(<<"R", "4">>), "ok", Front("{edgeCA}", <<>>)),
    File(<<"v">>, Md(<<"M", "1">>), "ok", Front("{endsNone}", <<>>)),
    File(<<"v">>, Md(<<"M", "2">>), "ok", Front("{endsStr}", <<>>)),
    File(<<"v">>, Md(<<"M", "3">>), "ok", Front("{endsMap}", <<>>)),
    File(<<"v">>, Md(<<"M", "4">>), "ok", Front("{ends0}", <<>>)),
    File(<<"v">>, Md(<<"M", "5">>), "ok", Front("{ends1}", <<>>)),
    File(<<"v">>, Md(<<"M", "6">>), "ok", Front("{ends3}", <<>>)),
    File(<<"v">>, Md(<<"X", "1">>), "ok", Front("{endsInt}", <<>>)),
    File(<<"v">>, Md(<<"X", "2">>), "ok", Front("{descNull}", <<>>)),
    File(<<"v">>, Md(<<"X", "3">>), "ok", Front("{intKey}", <<>>)),
    File(<<"v">>, Md(<<"U", "1">>), "oserror", <<>>),
    File(<<"v">>, Md(<<"U", "2">>), "decode", <<>>),
    File(<<"v">>, <<"n", ".", "t", "x", "t">>, "ok", Front("{nodeA}", <<>>))
}

----------------------------------------------------------------------------
\* ObsidianParser

\* yaml.safe_load(block): a mapping, another value, or a YAMLError.
SafeLoad(block) ==
    LET text == Strip(block)
    IN  IF Len(text) = 1 /\ text[1] \in DOMAIN YamlDocs
        THEN [kind |-> "dict", d |-> YamlDocs[text[1]]]
        ELSE IF \E n \in DOMAIN text : text[n] \in {"{", "}", ":"}
        THEN [kind |-> "error", d |-> EmptyDict]
        ELSE [kind |-> "other", d |-> EmptyDict]

\* An extraction that drops the block only once it has parsed to a mapping.
_extract_keeping_failed_block(content) ==
    IF StartsWith(content, Delim) /\ Len(Split2(content)) > 2
                                  /\ SafeLoad(Split2(content)[2]).kind = "dict"
    THEN [yaml |-> SafeLoad(Split2(content)[2]).d,
          body |-> Strip(Split2(content)[3]), warn |-> FALSE]
    ELSE [yaml |-> EmptyDict, body |-> content, warn |-> FALSE]

_extract_yaml_front_matter(content) ==
    IF StartsWith(content, Delim)
    THEN LET parts == Split2(content)
         IN  IF Len(parts) > 2
             THEN LET loaded == SafeLoad(parts[2])
                  IN  [yaml |-> IF loaded.kind = "dict" THEN loaded.d ELSE EmptyDict,
                       body |-> Strip(parts[3]),
                       warn |-> loaded.kind # "dict"]
             ELSE [yaml |-> EmptyDict, body |-> content, warn |-> FALSE]
    ELSE [yaml |-> EmptyDict, body |-> content, warn |-> FALSE]

_parse_internal_links(text) ==
    LET matches == FindLinks(text, 1)
    IN  [n \in DOMAIN matches |->
            LET target_note_name == Strip(matches[n].target)
            IN  [target_note_name |-> target_note_name,
                 link_text |-> IF matches[n].display # <<>>
                               THEN Strip(matches[n].display)
                               ELSE target_note_name]]

Note(file_path, yaml, content, links) ==
    [file_path |-> file_path,
     note_name |-> SplitextRoot(Basename(file_path)),
     yaml_front_matter |-> yaml,
     content |-> content,
     _internal_links_info |-> links]

\* parse_markdown_file(file_path), the read of the file doing `read` and
\* giving `text`: the exception that escapes ("none" if none) and the result.
parse_markdown_file(file_path, read, text) ==
    IF read = "oserror"
    THEN [raises |-> "none", data |-> Note(file_path, EmptyDict, <<>>, <<>>), warn |-> TRUE]
    ELSE IF read = "decode"
    THEN [raises |-> "UnicodeDecodeError",
          data |-> Note(file_path, EmptyDict, <<>>, <<>>), warn |-> FALSE]
    ELSE LET fm == _extract_yaml_front_matter(text)
         IN  [raises |-> "none",
              data |-> Note(file_path, fm.yaml, fm.body, _parse_internal_links(fm.body)),
              warn |-> fm.warn]

----------------------------------------------------------------------------
\* networkx.DiGraph: node maps each node to its attribute dict, adj each
\* (u, v) edge to its attribute dict.

EmptyGraph == [node |-> [n \in {} |-> EmptyDict], adj |-> [e \in {} |-> EmptyDict]]

\* add_node(n, **attr): a new node gets attr, an existing one is updated.
add_node(graph, n, attr) ==
    [graph EXCEPT !.node =
        [m \in DOMAIN graph.node \cup {n} |->
            IF m # n THEN graph.node[m]
            ELSE IF n \in DOMAIN graph.node THEN DictUpdate(graph.node[n], attr) ELSE attr]]

\* add_edge(u, v, **attr): absent endpoints are created with no attribute,
\* a new edge gets attr, an existing one is updated.
add_edge(graph, u, v, attr) ==
    [node |-> [m \in DOMAIN graph.node \cup {u, v} |->
                  IF m \in DOMAIN graph.node THEN graph.node[m] ELSE EmptyDict],
     adj |-> [e \in DOMAIN graph.adj \cup {<<u, v>>} |->
                  IF e # <<u, v>> THEN graph.adj[e]
                  ELSE IF <<u, v>> \in DOMAIN graph.adj
                       THEN DictUpdate(graph.adj[e], attr) ELSE attr]]

\* A lookup that finds every name.
has_node_always(graph, n) == TRUE

has_node(graph, n) == n \in DOMAIN graph.node

\* f(**kwargs) raises TypeError unless every keyword is a string.
KeywordsAreStrings(kwargs) == IntKey \notin DOMAIN kwargs

----------------------------------------------------------------------------
\* GraphBuilder

Warning(msg, note, arg) == [level |-> "WARNING", msg |-> msg, note |-> note, arg |-> arg]
Info(msg, note, arg) == [level |-> "INFO", msg |-> msg, note |-> note, arg |-> arg]

\* The classification of a note by build_graph's first loop.
IsNodeType(note_type) == note_type.t = "str" /\ note_type.s \in {tNode, tEvent}
\* A comparison that ignores case.
IsEdgeTypeAnyCase(note_type) == note_type.t = "str" /\ StrUpper(note_type.s) = StrUpper(tEdge)

IsEdgeType(note_type) == note_type.t = "str" /\ note_type.s = tEdge

node_attributes(note_data) ==
    LET yaml_fm == note_data.yaml_front_matter
    IN  [type |-> Get(yaml_fm, "type", Null),
         aliases |-> Get(yaml_fm, "aliases", EmptyList),
         describe |-> Get(yaml_fm, "describe", Null),
         version |-> Get(yaml_fm, "version", Null),
         over |-> Get(yaml_fm, "over", Null),
         tags |-> Get(yaml_fm, "tags", EmptyList),
         content |-> note_data.content,
         _all_yaml_props |-> yaml_fm,
         _internal_links_info |-> note_data._internal_links_info]

\* An insertion that keeps the node a name already has.
_add_node_first_wins(graph, note_data) ==
    IF note_data.note_name \in DOMAIN graph.node THEN graph
    ELSE add_node(graph, note_data.note_name, node_attributes(note_data))

_add_node_to_graph(graph, note_data) ==
    add_node(graph, note_data.note_name, node_attributes(note_data))

\* re.match raises TypeError on a link_str that is not a string.
_get_node_name_from_link(link_str) ==
    LET match == LinkMatch(link_str, 1)
    IN  IF match.ok THEN Strip(match.target) ELSE link_str

\* A shape test that accepts longer lists.
EndsAtLeastTwo(ends) == ends.t = "list" /\ Len(ends.l) >= 2

\* isinstance(ends, list) and len(ends) == 2
EndsWellFormed(ends) == ends.t = "list" /\ Len(ends.l) = 2

UNKNOWN_RELATION == <<"U","N","K","N","O","W","N","_","R","E","L","A","T","I","O","N">>

\* A derivation that forgets to replace the spaces.
relation_type_upper_only(edge_yaml_fm) ==
    StrUpper(Get(edge_yaml_fm, "describe", Str(UNKNOWN_RELATION)).s)

\* edge_yaml_fm.get("describe", "UNKNOWN_RELATION").upper().replace(' ', '_')
\* of a describe that is a string.
relation_type(edge_yaml_fm) ==
    ReplaceSpace(StrUpper(Get(edge_yaml_fm, "describe", Str(UNKNOWN_RELATION)).s))

\* A merge in which the raw metadata overwrites the promoted fields.
edge_attributes_raw_wins(edge_note_data) ==
    LET edge_yaml_fm == edge_note_data.yaml_front_matter
        promoted ==
            [relation_type |-> Str(relation_type(edge_yaml_fm)),
             defined_by_note_name |-> Str(edge_note_data.note_name),
             original_content |-> Str(edge_note_data.content),
             _all_yaml_props_from_edge_note |-> edge_yaml_fm,
             _internal_links_info |-> edge_note_data._internal_links_info,
             version |-> Get(edge_yaml_fm, "version", Null),
             over |-> Get(edge_yaml_fm, "over", Null),
             tags |-> Get(edge_yaml_fm, "tags", EmptyList)]
    IN  DictUpdate(promoted, edge_yaml_fm)

edge_attributes(edge_note_data) ==
    LET edge_yaml_fm == edge_note_data.yaml_front_matter
        promoted ==
            [relation_type |-> Str(relation_type(edge_yaml_fm)),
             defined_by_note_name |-> Str(edge_note_data.note_name),
             original_content |-> Str(edge_note_data.content),
             _all_yaml_props_from_edge_note |-> edge_yaml_fm,
             _internal_links_info |-> edge_note_data._internal_links_info,
             version |-> Get(edge_yaml_fm, "version", Null),
             over |-> Get(edge_yaml_fm, "over", Null),
             tags |-> Get(edge_yaml_fm, "tags", EmptyList)]
    IN  [key \in DOMAIN promoted \cup DOMAIN edge_yaml_fm |->
            IF key \in DOMAIN promoted THEN promoted[key] ELSE edge_yaml_fm[key]]

\* _add_edge_to_graph(graph, edge_note_data): the exception that escapes
\* ("none" if none), the graph afterwards and the log entry written.
_add_edge_to_graph(graph, edge_note_data) ==
    LET edge_yaml_fm == edge_note_data.yaml_front_matter
        name == edge_note_data.note_name
        ends == Get(edge_yaml_fm, "ends", Null)
        source_node_name == _get_node_name_from_link(ends.l[1].s)
        target_node_name == _get_node_name_from_link(ends.l[2].s)
        describe == Get(edge_yaml_fm, "describe", Str(UNKNOWN_RELATION))
    IN  IF ~EndsWellFormed(ends)
        THEN [raises |-> "none", graph |-> graph,
              log |-> <<Warning("ends malformed or missing", name, <<>>)>>]
        ELSE IF ends.l[1].t # "str" \/ ends.l[2].t # "str"
        THEN [raises |-> "TypeError", graph |-> graph, log |-> <<>>]
        ELSE IF ~has_node(graph, source_node_name)
        THEN [raises |-> "none", graph |-> graph,
              log |-> <<Warning("source node not in graph", name, source_node_name)>>]
        ELSE IF ~has_node(graph, target_node_name)
        THEN [raises |-> "none", graph |-> graph,
              log |-> <<Warning("target node not in graph", name, target_node_name)>>]
        ELSE IF describe.t # "str"
        THEN [raises |-> "AttributeError", graph |-> graph, log |-> <<>>]
        ELSE IF ~KeywordsAreStrings(edge_attributes(edge_note_data))
        THEN [raises |-> "TypeError", graph |-> graph, log |-> <<>>]
        ELSE [raises |-> "none",
              graph |-> add_edge(graph, source_node_name, target_node_name,
                                 edge_attributes(edge_note_data)),
              log |-> <<Info("edge added", name, relation_type(edge_yaml_fm))>>]

----------------------------------------------------------------------------
\* ObsidianGraphSDK.export_to_networkx(vault_path)

VARIABLES
    vault_isdir,            \* os.path.isdir(vault_path)
    files,                  \* the files os.walk yields, in the order it yields them
    pc,                     \* "start", "walk", "phase1", "phase2", "returned", "raised"
    i,                      \* position of the running loop
    all_parsed_notes_data,  \* the notes parsed so far
    G,                      \* the graph build_graph is building
    edge_notes_to_process,  \* the edge notes queued by phase 1
    log,                    \* the warnings and the node/edge records logged
    raised                  \* the exception that reached the caller, "none" if none

vars == <<vault_isdir, files, pc, i, all_parsed_notes_data, G,
          edge_notes_to_process, log, raised>>

FilePath(f) == PathJoin(f.root, f.file)

\* The vaults: up to MaxFiles files, no path twice.
Vaults ==
    UNION {{v \in [1..n -> FileMenu] :
               \A a, b \in 1..n : a # b => FilePath(v[a]) # FilePath(v[b])} : n \in 0..MaxFiles}

Init ==
    /\ vault_isdir \in BOOLEAN
    /\ files \in Vaults
    /\ ~vault_isdir => files = <<>>
    /\ pc = "start"
    /\ i = 1
    /\ all_parsed_notes_data = <<>>
    /\ G = EmptyGraph
    /\ edge_notes_to_process = <<>>
    /\ log = <<>>
    /\ raised = "none"

\* if not os.path.isdir(vault_path): raise FileNotFoundError
CheckVault ==
    /\ pc = "start"
    /\ IF vault_isdir
       THEN pc' = "walk" /\ raised' = raised
       ELSE pc' = "raised" /\ raised' = "FileNotFoundError"
    /\ UNCHANGED <<vault_isdir, files, i, all_parsed_notes_data, G,
                   edge_notes_to_process, log>>

\* One turn of the loop over the files os.walk yields.
WalkFile ==
    /\ pc = "walk"
    /\ i <= Len(files)
    /\ LET file == files[i]
           file_path == FilePath(file)
           parsed == parse_markdown_file(file_path, file.read, file.text)
       IN  IF ~EndsWith(file.file, MdExt)
           THEN /\ i' = i + 1
                /\ UNCHANGED <<pc, raised, all_parsed_notes_data, log>>
           ELSE IF parsed.raises # "none"
           THEN /\ pc' = "raised"
                /\ raised' = parsed.raises
                /\ UNCHANGED <<i, all_parsed_notes_data, log>>
           ELSE /\ i' = i + 1
                /\ all_parsed_notes_data' = Append(all_parsed_notes_data, parsed.data)
                /\ log' = IF parsed.warn
                          THEN Append(log, Warning("file not parsed", parsed.data.note_name, <<>>))
                          ELSE log
                /\ UNCHANGED <<pc, raised>>
    /\ UNCHANGED <<vault_isdir, files, G, edge_notes_to_process>>

\* graph_builder.build_graph(all_parsed_notes_data) is called: G = nx.DiGraph()
EnterBuildGraph ==
    /\ pc = "walk"
    /\ i > Len(files)
    /\ pc' = "phase1"
    /\ i' = 1
    /\ G' = EmptyGraph
    /\ edge_notes_to_process' = <<>>
    /\ UNCHANGED <<vault_isdir, files, all_parsed_notes_data, log, raised>>

\* Phase 1, one note: add a node, queue an edge note, or warn.
Phase1Step ==
    /\ pc = "phase1"
    /\ i <= Len(all_parsed_notes_data)
    /\ LET note_data == all_parsed_notes_data[i]
           note_type == Get(note_data.yaml_front_matter, "type", Null)
       IN  IF IsNodeType(note_type)
           THEN /\ G' = _add_node_to_graph(G, note_data)
                /\ log' = Append(log, Info("node added", note_data.note_name, note_type.s))
                /\ UNCHANGED edge_notes_to_process
           ELSE IF IsEdgeType(note_type)
           THEN /\ edge_notes_to_process' = Append(edge_notes_to_process, note_data)
                /\ UNCHANGED <<G, log>>
           ELSE /\ log' = Append(log, Warning("unknown or missing type",
                                              note_data.note_name, note_type.s))
                /\ UNCHANGED <<G, edge_notes_to_process>>
    /\ i' = i + 1
    /\ UNCHANGED <<vault_isdir, files, pc, all_parsed_notes_data, raised>>

\* The first loop is over: the second one starts.
EnterPhase2 ==
    /\ pc = "phase1"
    /\ i > Len(all_parsed_notes_data)
    /\ pc' = "phase2"
    /\ i' = 1
    /\ UNCHANGED <<vault_isdir, files, all_parsed_notes_data, G,
                   edge_notes_to_process, log, raised>>

\* Phase 2, one queued edge note.
Phase2Step ==
    /\ pc = "phase2"
    /\ i <= Len(edge_notes_to_process)
    /\ LET done == _add_edge_to_graph(G, edge_notes_to_process[i])
       IN  /\ G' = done.graph
           /\ log' = log \o done.log
           /\ IF done.raises = "none"
              THEN i' = i + 1 /\ UNCHANGED <<pc, raised>>
              ELSE pc' = "raised" /\ raised' = done.raises /\ i' = i
    /\ UNCHANGED <<vault_isdir, files, all_parsed_notes_data, edge_notes_to_process>>

\* return G, and export_to_networkx returns it.
Return ==
    /\ pc = "phase2"
    /\ i > Len(edge_notes_to_process)
    /\ pc' = "returned"
    /\ UNCHANGED <<vault_isdir, files, i, all_parsed_notes_data, G,
                   edge_notes_to_process, log, raised>>

Next ==
    \/ CheckVault
    \/ WalkFile
    \/ EnterBuildGraph
    \/ Phase1Step
    \/ EnterPhase2
    \/ Phase2Step
    \/ Return

Spec == Init /\ [][Next]_vars

----------------------------------------------------------------------------
\* What the claims speak of

\* The declared type of a note, and its three classes.
DeclaredType(d) ==
    IF "type" \in DOMAIN d.yaml_front_matter THEN d.yaml_front_matter["type"] ELSE Null
IsEntityDoc(d) == DeclaredType(d) \in {Str(tNode), Str(tEvent)}
IsEdgeDoc(d) == DeclaredType(d) = Str(tEdge)
IsOtherDoc(d) == ~IsEntityDoc(d) /\ ~IsEdgeDoc(d)

\* build_graph has been entered.
InBuild ==
    \/ pc \in {"phase1", "phase2", "returned"}
    \/ pc = "raised" /\ raised \in {"TypeError", "AttributeError"}

\* The notes the node phase has been through.
NodePhaseDone == IF ~InBuild THEN {}
                 ELSE IF pc = "phase1" THEN 1..(i - 1)
                 ELSE DOMAIN all_parsed_notes_data

\* The node phase and the edge phase are at a note.
AtPhase1Note == pc = "phase1" /\ i <= Len(all_parsed_notes_data)
AtPhase2Note == pc = "phase2" /\ i <= Len(edge_notes_to_process)

\* log' is log and one more entry.
Logged(entry) == log' = Append(log, entry)
LoggedOneWarningFor(name) ==
    /\ Len(log') = Len(log) + 1
    /\ SubSeq(log', 1, Len(log)) = log
    /\ log'[Len(log')].level = "WARNING"
    /\ log'[Len(log')].note = name

\* 'ends' is a sequence of exactly two elements, and both are strings.
HasTwoEnds(d) ==
    /\ "ends" \in DOMAIN d.yaml_front_matter
    /\ d.yaml_front_matter["ends"].t = "list"
    /\ Len(d.yaml_front_matter["ends"].l) = 2
HasTwoStringEnds(d) ==
    /\ HasTwoEnds(d)
    /\ \A n \in 1..2 : d.yaml_front_matter["ends"].l[n].t = "str"
ResolvedEnd(d, n) == _get_node_name_from_link(d.yaml_front_matter["ends"].l[n].s)

WarningsOf(msg) == {n \in DOMAIN log : log[n].level = "WARNING" /\ log[n].msg = msg}

----------------------------------------------------------------------------
\* C1: in every state of build_graph and in the graph it returns, both
\* endpoints of every edge are nodes of the graph, and every node of the graph
\* is the name of a note of type 'node' or 'event' that the node phase has been
\* through (no edge insertion creates a node).
C1_EdgesJoinDocumentNodes ==
    /\ \A e \in DOMAIN G.adj : e[1] \in DOMAIN G.node /\ e[2] \in DOMAIN G.node
    /\ \A n \in DOMAIN G.node :
          \E k \in NodePhaseDone :
              /\ all_parsed_notes_data[k].note_name = n
              /\ IsEntityDoc(all_parsed_notes_data[k])

\* A graph is returned that holds an edge.
C1_Witness == pc = "returned" /\ DOMAIN G.adj # {}

\* C2: no node is inserted after the node phase, and the edge phase, at an
\* edge note with two string ends whose resolved names are both names of
\* 'node'/'event' notes anywhere in the input, inserts that note's edge.
C2_Step ==
    /\ pc \in {"phase2", "returned"} => DOMAIN G'.node = DOMAIN G.node
    /\ pc = "phase1" => DOMAIN G.adj = {}
    /\ AtPhase2Note =>
          LET d == edge_notes_to_process[i]
              named(n) == \E k \in DOMAIN all_parsed_notes_data :
                             /\ IsEntityDoc(all_parsed_notes_data[k])
                             /\ all_parsed_notes_data[k].note_name = n
          IN  (/\ HasTwoStringEnds(d)
               /\ named(ResolvedEnd(d, 1))
               /\ named(ResolvedEnd(d, 2)))
              => /\ <<ResolvedEnd(d, 1), ResolvedEnd(d, 2)>> \in DOMAIN G'.adj
                 /\ G'.adj[<<ResolvedEnd(d, 1), ResolvedEnd(d, 2)>>]["defined_by_note_name"]
                       = Str(d.note_name)
\* C2, as a property of every step: no node after the node phase, and every
\* resolvable edge note yields its edge.
C2_EveryResolvableEdgeIsYielded == [][C2_Step]_vars

\* C3: the node phase, at a note whose type is not exactly 'node', 'event' or
\* 'edge', leaves the graph and the queue as they are and logs exactly one
\* warning, about that note; at a note whose type is exactly 'edge' it queues
\* the note and logs nothing.  Only notes of type 'edge' are ever queued, and
\* every edge of the graph was defined by a queued note.
C3_Step ==
    /\ \A n \in DOMAIN edge_notes_to_process : IsEdgeDoc(edge_notes_to_process[n])
    /\ \A e \in DOMAIN G.adj :
          \E n \in DOMAIN edge_notes_to_process :
              /\ G.adj[e]["defined_by_note_name"] = Str(edge_notes_to_process[n].note_name)
              /\ G.adj[e]["_all_yaml_props_from_edge_note"]
                    = edge_notes_to_process[n].yaml_front_matter
    /\ AtPhase1Note =>
          LET d == all_parsed_notes_data[i]
          IN  /\ IsOtherDoc(d) =>
                    /\ G' = G
                    /\ edge_notes_to_process' = edge_notes_to_process
                    /\ LoggedOneWarningFor(d.note_name)
              /\ IsEdgeDoc(d) =>
                    /\ G' = G
                    /\ edge_notes_to_process' = Append(edge_notes_to_process, d)
                    /\ log' = log
\* C3, as a property of every step: a note of another type contributes
\* nothing and is warned about once, a note of type 'edge' is queued silently.
C3_OtherTypesContributeNothing == [][C3_Step]_vars

\* A graph is returned after a warning about the note with type 'Edge', with
\* an edge note queued.
C3_Witness ==
    /\ pc = "returned"
    /\ edge_notes_to_process # <<>>
    /\ \E n \in WarningsOf("unknown or missing type") :
          log[n].note = <<"E">> /\ log[n].arg = tEdgeCap

\* C4: the edge phase, at an edge note with two string ends of which at least
\* one resolved name is not a node of the graph, leaves the graph as it is,
\* goes on, and logs one warning that names a missing endpoint.
C4_Step ==
    AtPhase2Note =>
        LET d == edge_notes_to_process[i]
            missing == {ResolvedEnd(d, 1), ResolvedEnd(d, 2)} \ DOMAIN G.node
        IN  (HasTwoStringEnds(d) /\ missing # {})
            => /\ G' = G
               /\ raised' = "none" /\ pc' = pc /\ i' = i + 1
               /\ LoggedOneWarningFor(d.note_name)
               /\ log'[Len(log')].arg \in missing
\* C4, as a property of every step: a missing endpoint drops the edge with a
\* warning that names it.
C4_MissingEndpointDropsEdge == [][C4_Step]_vars

\* A graph is returned after an edge note was dropped for its source and
\* another for its target.
C4_Witness ==
    /\ pc = "returned"
    /\ WarningsOf("source node not in graph") # {}
    /\ WarningsOf("target node not in graph") # {}
    /\ DOMAIN G.node # {}

\* C5: the edge phase, at an edge note whose 'ends' is not a sequence of
\* exactly two elements, leaves the graph as it is, goes on, and logs one
\* warning, about that note's malformed 'ends'.
C5_Step ==
    AtPhase2Note =>
        LET d == edge_notes_to_process[i]
        IN  ~HasTwoEnds(d)
            => /\ G' = G
               /\ raised' = "none" /\ pc' = pc /\ i' = i + 1
               /\ Logged(Warning("ends malformed or missing", d.note_name, <<>>))
\* C5, as a property of every step: malformed 'ends' drops the edge with one
\* warning.
C5_MalformedEndsDropsEdge == [][C5_Step]_vars

\* A graph is returned after three edge notes were dropped for their 'ends':
\* a plain string, a mapping and a sequence of three.
C5_Witness ==
    /\ pc = "returned"
    /\ {log[n].note : n \in WarningsOf("ends malformed or missing")}
          = {<<"M", "2">>, <<"M", "3">>, <<"M", "6">>}

\* C6: parse_markdown_file, on a '.md' file that cannot be read as UTF-8 text,
\* raises nothing and returns the note with the name derived from the path,
\* empty metadata, empty body and no reference.
C6_Step ==
    (/\ pc = "walk" /\ i <= Len(files)
     /\ EndsWith(files[i].file, MdExt)
     /\ files[i].read # "ok")
    => /\ raised' = "none" /\ pc' = "walk"
       /\ all_parsed_notes_data' =
             Append(all_parsed_notes_data,
                    [file_path |-> FilePath(files[i]),
                     note_name |-> SubSeq(files[i].file, 1, Len(files[i].file) - 3),
                     yaml_front_matter |-> EmptyDict,
                     content |-> <<>>,
                     _internal_links_info |-> <<>>])
\* C6, as a property of every step: an unreadable file gives the empty parsed
\* note and raises nothing.
C6_UnreadableFileNeverRaises == [][C6_Step]_vars

\* C7: build_graph never aborts: no step of the node phase or of the edge
\* phase raises, whatever the metadata of the notes.
C7_Step ==
    pc \in {"phase1", "phase2"} => pc' \in {"phase1", "phase2", "returned"} /\ raised' = "none"
\* C7, as a property of every step: build_graph never aborts.
C7_BuildGraphNeverAborts == [][C7_Step]_vars

\* C8: the only error that reaches the caller of export_to_networkx is the
\* not-found error, raised exactly when vault_path is not a directory and
\* before anything is parsed or built; for a directory a graph is returned,
\* built from one parsed note per '.md' file.
C8_OnlyNotFoundReachesCaller ==
    /\ pc = "raised" =>
          /\ raised = "FileNotFoundError" /\ ~vault_isdir
          /\ all_parsed_notes_data = <<>> /\ G = EmptyGraph /\ log = <<>>
    /\ ~vault_isdir => pc \in {"start", "raised"}
    /\ InBuild =>
          all_parsed_notes_data =
             SelectSeq([n \in DOMAIN files |->
                           parse_markdown_file(FilePath(files[n]), files[n].read,
                                               files[n].text).data],
                       LAMBDA d : EndsWith(d.file_path, MdExt))

\* C9: the nodes of the graph are the distinct names of the 'node'/'event'
\* notes the node phase has been through, one node per name, and the attributes
\* of each are exactly those built from the last such note of that name.
C9_LastNodeDocumentWins ==
    LET ents == {k \in NodePhaseDone : IsEntityDoc(all_parsed_notes_data[k])}
        names == {all_parsed_notes_data[k].note_name : k \in ents}
        last(n) == CHOOSE k \in ents :
                      /\ all_parsed_notes_data[k].note_name = n
                      /\ \A j \in ents : all_parsed_notes_data[j].note_name = n => j <= k
        or(m, key, default) == IF key \in DOMAIN m THEN m[key] ELSE default
    IN  /\ DOMAIN G.node = names
        /\ Cardinality(DOMAIN G.node) = Cardinality(names)
        /\ \A n \in names :
              LET d == all_parsed_notes_data[last(n)]
                  m == d.yaml_front_matter
              IN  G.node[n] = [type |-> m["type"],
                               aliases |-> or(m, "aliases", EmptyList),
                               describe |-> or(m, "describe", Null),
                               version |-> or(m, "version", Null),
                               over |-> or(m, "over", Null),
                               tags |-> or(m, "tags", EmptyList),
                               content |-> d.content,
                               _all_yaml_props |-> m,
                               _internal_links_info |-> d._internal_links_info]

\* A graph is returned whose input held two 'node'/'event' notes of one name
\* with different metadata, bodies and references.
C9_Witness ==
    /\ pc = "returned"
    /\ \E j, k \in DOMAIN all_parsed_notes_data :
          /\ j < k
          /\ IsEntityDoc(all_parsed_notes_data[j]) /\ IsEntityDoc(all_parsed_notes_data[k])
          /\ all_parsed_notes_data[j].note_name = all_parsed_notes_data[k].note_name
          /\ "aliases" \in DOMAIN all_parsed_notes_data[j].yaml_front_matter
          /\ "aliases" \notin DOMAIN all_parsed_notes_data[k].yaml_front_matter
          /\ all_parsed_notes_data[j].content # all_parsed_notes_data[k].content
          /\ all_parsed_notes_data[j]._internal_links_info # <<>>
          /\ all_parsed_notes_data[k]._internal_links_info = <<>>

\* C10: the relation kind of every edge of the graph is the 'describe' string
\* of its edge note with each lowercase letter uppercased, each space replaced
\* by an underscore and every other character kept, and is UNKNOWN_RELATION
\* when the note has no 'describe' key; 'relates to' gives 'RELATES_TO'.
C10_RelationKind ==
    /\ \A e \in DOMAIN G.adj :
          LET m == G.adj[e]["_all_yaml_props_from_edge_note"]
              kind == G.adj[e]["relation_type"]
          IN  /\ kind.t = "str"
              /\ IF "describe" \notin DOMAIN m
                 THEN kind.s = <<"U","N","K","N","O","W","N","_",
                                 "R","E","L","A","T","I","O","N">>
                 ELSE /\ m["describe"].t = "str"
                      /\ Len(kind.s) = Len(m["describe"].s)
                      /\ \A n \in DOMAIN kind.s :
                            LET c == m["describe"].s[n]
                            IN  kind.s[n] = IF c = " " THEN "_"
                                            ELSE IF \E x \in DOMAIN Lower : Lower[x] = c
                                            THEN Upper[CHOOSE x \in DOMAIN Lower : Lower[x] = c]
                                            ELSE c
    /\ relation_type(Dict(<< <<"describe",
                               Str(<<"r","e","l","a","t","e","s"," ","t","o">>)>> >>))
          = <<"R","E","L","A","T","E","S","_","T","O">>

\* A graph is returned with an edge whose note's 'describe' holds lowercase
\* letters, spaces and other characters.
C10_Witness ==
    /\ pc = "returned"
    /\ \E e \in DOMAIN G.adj :
          /\ G.adj[e]["relation_type"] = Str(<<"A", "_", "B", "_", "-", "C">>)
          /\ G.adj[e]["describe"] = Str(<<"a", " ", "b", " ", "-", "C">>)

----------------------------------------------------------------------------
\* parse_markdown_file on the texts of one file

\* Largest number of segments a text is made of.
MaxSegments == 5

\* What the texts are made of: the delimiter, a lone hyphen, white space, a
\* word, two YAML documents and a character that opens a YAML flow mapping.
Segments == {Delim, <<"-">>, <<"\n">>, <<" ">>, <<"x">>,
             <<"{nodeA}">>, <<"{edgeAA}">>, <<"{">>}

RECURSIVE Concat(_)
Concat(segs) == IF segs = <<>> THEN <<>> ELSE Head(segs) \o Concat(Tail(segs))

Texts == {Concat(segs) : segs \in UNION {[1..n -> Segments] : n \in 0..MaxSegments}}

\* A vault of one readable file, A.md, with any of the texts.
InitParse ==
    /\ vault_isdir = TRUE
    /\ files \in {<<File(<<"v">>, Md(sA), "ok", text)>> : text \in Texts}
    /\ pc = "start"
    /\ i = 1
    /\ all_parsed_notes_data = <<>>
    /\ G = EmptyGraph
    /\ edge_notes_to_process = <<>>
    /\ log = <<>>
    /\ raised = "none"

SpecParse == InitParse /\ [][Next]_vars

\* The text a parsed note was read from.
TextOf(d) == (CHOOSE f \in Range(files) : FilePath(f) = d.file_path).text

IsDelimAt(text, p) ==
    /\ p >= 1 /\ p + 2 <= Len(text)
    /\ text[p] = "-" /\ text[p + 1] = "-" /\ text[p + 2] = "-"

\* The places where a second delimiter can be, after a delimiter at the start.
SecondDelims(text) == {p \in 4..Len(text) : IsDelimAt(text, p)}
SecondDelim(text) == CHOOSE p \in SecondDelims(text) : \A q \in SecondDelims(text) : p <= q

\* c is r without its leading and trailing white space.
IsTrimOf(c, r) ==
    \E a \in 0..Len(r) : \E b \in a..Len(r) :
        /\ c = SubSeq(r, a + 1, b)
        /\ \A n \in 1..a : r[n] \in Whitespace
        /\ \A n \in (b + 1)..Len(r) : r[n] \in Whitespace
        /\ c # <<>> => c[1] \notin Whitespace /\ c[Len(c)] \notin Whitespace

\* C11: for a text that starts with the delimiter, (1) with no second
\* delimiter the metadata is empty and the body is the whole text, untrimmed;
\* (2) with a second delimiter and a block that does not load to a mapping the
\* metadata is empty and the body is the trimmed text after the second
\* delimiter; (3) with a block that loads to a mapping the metadata is that
\* mapping and the body is the trimmed text after the second delimiter.
C11_FrontMatterCases ==
    \A k \in DOMAIN all_parsed_notes_data :
        LET d == all_parsed_notes_data[k]
            text == TextOf(d)
            p2 == SecondDelim(text)
            block == SubSeq(text, 4, p2 - 1)
            rest == SubSeq(text, p2 + 3, Len(text))
        IN  IsDelimAt(text, 1) =>
               IF SecondDelims(text) = {}
               THEN d.yaml_front_matter = EmptyDict /\ d.content = text
               ELSE /\ IsTrimOf(d.content, rest)
                    /\ d.yaml_front_matter = IF SafeLoad(block).kind = "dict"
                                             THEN SafeLoad(block).d
                                             ELSE EmptyDict

\* A note is parsed from a text whose block is a YAML error and whose body,
\* after the second delimiter, has white space around it.
C11_Witness ==
    \E k \in DOMAIN all_parsed_notes_data :
        LET d == all_parsed_notes_data[k]
        IN  /\ TextOf(d) = Delim \o <<"{">> \o Delim \o <<" ", "x">>
            /\ d.content = <<"x">>
            /\ d.yaml_front_matter = EmptyDict

----------------------------------------------------------------------------
\* The edge phase inserts the edge of the note it is at.
InsertsEdge == AtPhase2Note /\ G' # G

\* The edge of the note the edge phase is at.
EdgeAt == <<ResolvedEnd(edge_notes_to_process[i], 1), ResolvedEnd(edge_notes_to_process[i], 2)>>

\* The attribute keys the claims call promoted, and the two more keys that
\* the code sets before it copies the raw metadata.
PromotedNamed == {"relation_type", "defined_by_note_name", "original_content",
                  "version", "over", "tags"}
PromotedAll == PromotedNamed \cup {"_all_yaml_props_from_edge_note", "_internal_links_info"}

\* C12: when the edge phase inserts an edge, the graph holds one edge for its
\* (source, target) pair and the attributes of that edge are exactly those
\* built from the note being processed: every key is a promoted field or a key
\* of that note's metadata, with that note's value, whatever an earlier note
\* put on the same pair.
C12_Step ==
    InsertsEdge =>
        LET d == edge_notes_to_process[i]
            m == d.yaml_front_matter
            a == G'.adj[EdgeAt]
        IN  /\ EdgeAt \in DOMAIN G'.adj
            /\ DOMAIN G'.adj \ {EdgeAt} = DOMAIN G.adj \ {EdgeAt}
            /\ a["defined_by_note_name"] = Str(d.note_name)
            /\ a["_all_yaml_props_from_edge_note"] = m
            /\ DOMAIN a \subseteq PromotedAll \cup DOMAIN m
            /\ \A key \in DOMAIN m \ PromotedAll : a[key] = m[key]
\* C12, as a property of every step: the last edge note of a pair overwrites
\* the edge, with nothing left over.
C12_LastEdgeDocumentOverwrites == [][C12_Step]_vars

\* The promoted fields of the edge of note d, with their derived values.
DerivedFields(d) ==
    LET m == d.yaml_front_matter
        or(key, default) == IF key \in DOMAIN m THEN m[key] ELSE default
    IN  [relation_type |-> Str(ReplaceSpace(StrUpper(or("describe", Str(UNKNOWN_RELATION)).s))),
         defined_by_note_name |-> Str(d.note_name),
         original_content |-> Str(d.content),
         version |-> or("version", Null),
         over |-> or("over", Null),
         tags |-> or("tags", EmptyList)]

\* C13 as it stands: when the edge phase inserts an edge, the six promoted
\* fields have their derived values, and every key of the note's raw metadata
\* other than those six is on the edge with its raw value.
C13_StepNamed ==
    InsertsEdge =>
        LET d == edge_notes_to_process[i]
            m == d.yaml_front_matter
            a == G'.adj[EdgeAt]
        IN  /\ \A key \in PromotedNamed : a[key] = DerivedFields(d)[key]
            /\ \A key \in DOMAIN m \ PromotedNamed : key \in DOMAIN a /\ a[key] = m[key]
\* C13, as a property of every step, with the six promoted fields it names.
C13_MergeRuleSixPromoted == [][C13_StepNamed]_vars

\* C13 amended: when the edge phase inserts an edge, the promoted fields are
\* the six named ones and two more, the raw metadata mapping and the references
\* of the body; all eight have their derived values, whatever the raw metadata
\* holds under their names, and every other key of the raw metadata is on the
\* edge with its raw value.
C13_Step ==
    InsertsEdge =>
        LET d == edge_notes_to_process[i]
            m == d.yaml_front_matter
            a == G'.adj[EdgeAt]
        IN  /\ \A key \in PromotedNamed : a[key] = DerivedFields(d)[key]
            /\ a["_all_yaml_props_from_edge_note"] = m
            /\ a["_internal_links_info"] = d._internal_links_info
            /\ \A key \in DOMAIN m \ PromotedAll : key \in DOMAIN a /\ a[key] = m[key]
\* C13 amended, as a property of every step: the merge rule with eight
\* promoted fields.
C13_MergeRule == [][C13_Step]_vars

\* A graph is returned with an edge whose note has raw keys named like
\* promoted fields and a user key: the promoted values stand, the user key is
\* copied.
C13_Witness ==
    /\ pc = "returned"
    /\ \E e \in DOMAIN G.adj :
          LET a == G.adj[e]
              m == a["_all_yaml_props_from_edge_note"]
          IN  /\ {"relation_type", "_internal_links_info", "k", "type", "ends", "describe"}
                    \subseteq DOMAIN m
              /\ a["relation_type"] = Str(<<"B", "_", "C">>)
              /\ m["relation_type"] = Str(<<"m", "i", "n", "e">>)
              /\ a["_internal_links_info"] # m["_internal_links_info"]
              /\ a["_internal_links_info"] # <<>>
              /\ a["k"] = m["k"] /\ a["type"] = m["type"]
              /\ a["ends"] = m["ends"] /\ a["describe"] = m["describe"]

----------------------------------------------------------------------------
\* build_graph on a node note A, a node note B and one edge note between a
\* string built from link punctuation and the name B

\* Largest number of segments an end of the edge note is made of.
MaxLinkSegments == 5

LinkSegments == {<<"[", "[">>, <<"]", "]">>, <<"|">>, <<"A">>, <<" ">>, <<"x">>}

LinkStrings ==
    {Concat(segs) : segs \in UNION {[1..n -> LinkSegments] : n \in 1..MaxLinkSegments}}

NodeNote(name) ==
    Note(PathJoin(<<"v">>, Md(name)), Dict(<< <<"type", Str(tNode)>> >>), <<>>, <<>>)

EdgeNote(ends) ==
    Note(PathJoin(<<"v">>, Md(<<"R">>)),
         Dict(<< <<"type", Str(tEdge)>>, <<"ends", List(<<Str(ends[1]), Str(ends[2])>>)>> >>),
         <<>>, <<>>)

\* build_graph is called with the three notes.
InitLinks ==
    /\ vault_isdir = TRUE
    /\ files = <<>>
    /\ pc = "phase1"
    /\ i = 1
    /\ all_parsed_notes_data \in
          {<<NodeNote(sA), NodeNote(sB), EdgeNote(ends)>> :
              ends \in {<<s, sB>> : s \in LinkStrings} \cup {<<sB, s>> : s \in LinkStrings}}
    /\ G = EmptyGraph
    /\ edge_notes_to_process = <<>>
    /\ log = <<>>
    /\ raised = "none"

NextBuild ==
    \/ Phase1Step
    \/ EnterPhase2
    \/ Phase2Step
    \/ Return

SpecLinks == InitLinks /\ [][NextBuild]_vars

\* s is link syntax: '[[target]]' or '[[target|display]]', the target without
\* '|' and ']', the display without ']', both non-empty.
IsLinkSyntax(s) ==
    /\ Len(s) >= 5
    /\ s[1] = "[" /\ s[2] = "[" /\ s[Len(s) - 1] = "]" /\ s[Len(s)] = "]"
    /\ \E b \in 3..(Len(s) - 2) :
          /\ \A n \in 3..b : s[n] \notin {"|", "]"}
          /\ \/ b = Len(s) - 2
             \/ /\ s[b + 1] = "|"
                /\ b + 2 <= Len(s) - 2
                /\ \A n \in (b + 2)..(Len(s) - 2) : s[n] # "]"

\* The target of a string that is link syntax: what is between '[[' and the
\* first '|', or ']]' when there is no '|'.
LinkTarget(s) ==
    LET bars == {n \in 3..(Len(s) - 2) : s[n] = "|"}
        b == IF bars = {} THEN Len(s) - 1 ELSE CHOOSE n \in bars : \A k \in bars : n <= k
    IN  SubSeq(s, 3, b - 1)

\* What C14 says an end resolves to.
ClaimedName(s) ==
    IF IsLinkSyntax(s)
    THEN CHOOSE c \in {SubSeq(LinkTarget(s), a, b) : a \in 1..(Len(s) + 1), b \in 0..Len(LinkTarget(s))} :
            IsTrimOf(c, LinkTarget(s))
    ELSE s

\* C14: the edge phase, at an edge note with two string ends, resolves each
\* end to its trimmed target when the end is link syntax and to the end itself,
\* character for character, when it is not; the edge inserted goes from the
\* resolution of ends[0] to that of ends[1], and when a resolved name is not a
\* node the warning names it.
C14_Step ==
    (AtPhase2Note /\ HasTwoStringEnds(edge_notes_to_process[i])) =>
        LET d == edge_notes_to_process[i]
            source == ClaimedName(d.yaml_front_matter["ends"].l[1].s)
            target == ClaimedName(d.yaml_front_matter["ends"].l[2].s)
        IN  IF source \in DOMAIN G.node /\ target \in DOMAIN G.node
            THEN pc' = "phase2" => /\ <<source, target>> \in DOMAIN G'.adj
                                   /\ DOMAIN G'.adj = DOMAIN G.adj \cup {<<source, target>>}
            ELSE /\ G' = G
                 /\ LoggedOneWarningFor(d.note_name)
                 /\ log'[Len(log')].arg = IF source \notin DOMAIN G.node THEN source ELSE target
\* C14, as a property of every step: ends resolve as link syntax or verbatim.
C14_EndpointResolution == [][C14_Step]_vars

====
